---- MODULE Spec2Model ----
(***************************************************************************)
(* Plugin resolution and phase execution of atomic_reactor/plugin.py:      *)
(* PluginsRunner and its phase runners (Input, PreBuild, BuildStep,        *)
(* PostBuild, PrePublish, Exit).  One behaviour is one runner: the caller  *)
(* picks a phase and a request list, the runner is constructed, and run()  *)
(* walks the resolved list one plugin attempt per step.                    *)
(***************************************************************************)
EXTENDS Integers, Sequences, FiniteSets, TLC

\* Request lists of up to MaxReq requests are all looked at, and of the lists
\* one request longer those of Interleaved.
MaxReq == 2

\* Python's None as a class key or a build method.
None == "None"

Phases == {"Input", "PreBuild", "BuildStep", "PostBuild", "PrePublish", "Exit"}

\* plugin_class_name handed to PluginsRunner.__init__ by each phase runner.
PluginClassName(ph) == ph \o "Plugin"

(***************************************************************************)
(* Python dicts, insertion ordered: a sequence of [key, val] with          *)
(* distinct keys.                                                          *)
(***************************************************************************)
Has(d, k) == \E j \in 1..Len(d) : d[j].key = k

Get(d, k) == d[CHOOSE j \in 1..Len(d) : d[j].key = k].val

Put(d, k, v) ==
    IF Has(d, k)
    THEN [j \in 1..Len(d) |-> IF d[j].key = k THEN [key |-> k, val |-> v] ELSE d[j]]
    ELSE Append(d, [key |-> k, val |-> v])

KeepOther(e, k) == e.key # k

Pop(d, k) == SelectSeq(d, LAMBDA e : KeepOther(e, k))

Keys(d) == {d[j].key : j \in 1..Len(d)}

(***************************************************************************)
(* The classes bound in the plugin modules load_plugins scans: the         *)
(* abstract bases the modules import and the concrete plugins they define. *)
(* mro is the set of class names issubclass() accepts for the class.       *)
(***************************************************************************)
Base(n, mro) == [name |-> n, mro |-> mro, key |-> None, is_allowed_to_fail |-> TRUE]

Concrete(n, mro, k, atf) == [name |-> n, mro |-> mro, key |-> k, is_allowed_to_fail |-> atf]

Bindings ==
    { Base("PreBuildPlugin", {"PreBuildPlugin"}),
      Base("BuildStepPlugin", {"BuildStepPlugin"}),
      Base("PrePublishPlugin", {"PrePublishPlugin"}),
      Base("PostBuildPlugin", {"PostBuildPlugin"}),
      Base("ExitPlugin", {"ExitPlugin", "PostBuildPlugin"}),
      Base("InputPlugin", {"InputPlugin"}),
      Concrete("PreBuildSleepPlugin", {"PreBuildPlugin"}, "pre_sleep", TRUE),
      Concrete("PreBuildCheckPlugin", {"PreBuildPlugin"}, "pre_check", FALSE),
      Concrete("OCDockerbuildPlugin", {"BuildStepPlugin"}, "oc_dockerbuild", TRUE),
      Concrete("DockerApiPlugin", {"BuildStepPlugin"}, "docker_api", TRUE),
      Concrete("PrePublishSquashPlugin", {"PrePublishPlugin"}, "squash", TRUE),
      Concrete("PrePublishCheckPlugin", {"PrePublishPlugin"}, "prepub_check", FALSE),
      Concrete("PostBuildRPMqaPlugin", {"PostBuildPlugin"}, "all_rpm_packages", TRUE),
      Concrete("PostBuildPushPlugin", {"PostBuildPlugin"}, "tag_and_push", FALSE),
      Concrete("ExitStorePlugin", {"ExitPlugin", "PostBuildPlugin"}, "store_metadata", TRUE),
      Concrete("ExitCleanupPlugin", {"ExitPlugin", "PostBuildPlugin"}, "remove_built_image", FALSE),
      Concrete("InputPathPlugin", {"InputPlugin"}, "path", TRUE),
      Concrete("InputEnvPlugin", {"InputPlugin"}, "env", TRUE) }

\* issubclass(binding, plugin_class)
issubclass(binding, plugin_class_name) == plugin_class_name \in binding.mro

\* PluginsRunner.load_plugins: the classes registered for plugin_class_name,
\* each under its key.
load_plugins(plugin_class_name) ==
    { b \in Bindings : issubclass(b, plugin_class_name) /\ b.name # plugin_class_name }

RegisteredKeys(plugin_class_name) == { b.key : b \in load_plugins(plugin_class_name) }

\* plugin_classes[plugin_name]
ClassOf(plugin_class_name, plugin_name) ==
    CHOOSE b \in load_plugins(plugin_class_name) : b.key = plugin_name

(***************************************************************************)
(* Requests: {name, required (optional), is_allowed_to_fail (optional)}.   *)
(* An optional key is the empty set when the dict lacks it, else {value}.  *)
(***************************************************************************)
Request(n, r, a) == [name |-> n, required |-> r, is_allowed_to_fail |-> a]

Opt == { {}, {TRUE}, {FALSE} }

\* dict.get(key, default)
GetOr(opt, default) == IF opt = {} THEN default ELSE CHOOSE v \in opt : TRUE

\* Names a caller asks for in a phase: concrete plugins of the phase, a name
\* no module defines, for PostBuild an exit plugin, for Input the literal "auto".
NamesFor(ph) ==
    CASE ph = "PreBuild"   -> {"pre_sleep", "pre_check"}
      [] ph = "BuildStep"  -> {"oc_dockerbuild", "docker_api"}
      [] ph = "PrePublish" -> {"squash", "prepub_check"}
      [] ph = "PostBuild"  -> {"tag_and_push", "store_metadata"}
      [] ph = "Exit"       -> {"store_metadata", "remove_built_image"}
      [] ph = "Input"      -> {"path", "env", "auto"}

RequestsFor(ph) ==
    { Request(n, {}, a) : n \in NamesFor(ph), a \in Opt }
    \cup { Request("no_such_plugin", r, {}) : r \in Opt }

RECURSIVE SeqsUpTo(_, _)
SeqsUpTo(S, n) ==
    IF n = 0 THEN { << >> }
    ELSE LET shorter == SeqsUpTo(S, n - 1)
         IN  shorter \cup { Append(s, x) : s \in { t \in shorter : Len(t) = n - 1 }, x \in S }

\* Requests for the registered plugins of a phase that leave every option
\* to its default.
PlainRequestsFor(ph) ==
    { Request(n, {}, {}) : n \in NamesFor(ph) \cap RegisteredKeys(PluginClassName(ph)) }

\* Request lists of MaxReq + 1 requests: plain requests for registered
\* plugins around one request, not the first and not the last, that is
\* required=False and names a plugin no module defines.
Interleaved(ph) ==
    { s \in [1..(MaxReq + 1) -> PlainRequestsFor(ph)
                                   \cup {Request("no_such_plugin", {FALSE}, {})}] :
        \E u \in 2..MaxReq :
            \A j \in 1..(MaxReq + 1) : (s[j].name = "no_such_plugin") <=> (j = u) }

\* The request lists a caller hands to the runner of a phase.
RequestLists(ph) == SeqsUpTo(RequestsFor(ph), MaxReq) \cup Interleaved(ph)

\* Variant of line 219 with the default False.
IsRequiredDefaultFalse(req) == GetOr(req.required, FALSE)

\* plugin_request.get('required', True)
IsRequired(req) == GetOr(req.required, TRUE)

\* plugin_request.get('is_allowed_to_fail', getattr(plugin_class, "is_allowed_to_fail", True))
EffectiveAllowedToFail(req, cls) ==
    GetOr(req.is_allowed_to_fail, cls.is_allowed_to_fail)

PluginData(req, cls) ==
    [name |-> req.name, key |-> cls.key,
     is_allowed_to_fail |-> EffectiveAllowedToFail(req, cls)]

\* Variant of get_available_plugins whose line 232 puts the plugin at the
\* front of the list instead of at its end.
RECURSIVE NewestFirst(_, _, _)
NewestFirst(pcn, conf, available) ==
    IF conf = << >>
    THEN [found |-> TRUE, name |-> None, plugins |-> available]
    ELSE LET plugin_request == Head(conf)
         IN  IF plugin_request.name \notin RegisteredKeys(pcn)
             THEN IF IsRequired(plugin_request)
                  THEN [found |-> FALSE, name |-> plugin_request.name, plugins |-> available]
                  ELSE NewestFirst(pcn, Tail(conf), available)
             ELSE NewestFirst(pcn, Tail(conf),
                      << PluginData(plugin_request, ClassOf(pcn, plugin_request.name)) >>
                          \o available)

\* PluginsRunner.get_available_plugins, request by request: found says
\* whether every request was passed without raising, name is the plugin the
\* raised error names, plugins is the list built so far.
RECURSIVE get_available_plugins(_, _, _)
get_available_plugins(pcn, conf, available) ==
    IF conf = << >>
    THEN [found |-> TRUE, name |-> None, plugins |-> available]
    ELSE LET plugin_request == Head(conf)
         IN  IF plugin_request.name \notin RegisteredKeys(pcn)
             THEN IF IsRequired(plugin_request)
                  THEN [found |-> FALSE, name |-> plugin_request.name, plugins |-> available]
                  ELSE get_available_plugins(pcn, Tail(conf), available)
             ELSE get_available_plugins(pcn, Tail(conf),
                      Append(available,
                             PluginData(plugin_request, ClassOf(pcn, plugin_request.name))))

(***************************************************************************)
(* Values and exceptions.  by is the position in the resolved list of the  *)
(* attempt that produced the value (0: not produced by an attempt).        *)
(***************************************************************************)
Val(t, key, by) == [t |-> t, key |-> key, by |-> by]

NoVal == Val("None", None, 0)

\* bool(value): None is false, a BuildResult or an exception object is true.
Truthy(v) == v.t # "None"

\* msg of line 296: "plugin '<key>' raised an exception: <exception_message(ex)>",
\* and the other texts PluginFailedException is raised with.
Msg(text, key, ex) == [text |-> text, key |-> key, ex |-> ex]

Exc(type, msgs, by) == [type |-> type, msgs |-> msgs, by |-> by]

NoExc == Exc("None", << >>, 0)

PluginFailedException(msgs) == Exc("PluginFailedException", msgs, 0)

(***************************************************************************)
(* Plugin arguments.  A Python value is a node: a scalar holds its text in *)
(* s, a list or a dict holds its members in items as [key, val] (key is "" *)
(* for the elements of a list).                                            *)
(***************************************************************************)
\* Deepest nesting of containers in a plugin's args, the args dict included.
MaxDepth == 3

Scalar(s) == [t |-> "scalar", s |-> s, items |-> << >>]

Item(k, v) == [key |-> k, val |-> v]

List(vs) == [t |-> "list", s |-> "", items |-> [j \in 1..Len(vs) |-> Item("", vs[j])]]

Dict(kvs) == [t |-> "dict", s |-> "", items |-> kvs]

\* The reserved values of _translate_special_values.
Tokens == {"BUILT_IMAGE_ID", "BUILD_DOCKERFILE_PATH", "BUILD_SOURCE_PATH", "BASE_IMAGE"}

\* The attribute of the build context each reserved value is translated to.
LiveValue(token) ==
    CASE token = "BUILT_IMAGE_ID"        -> Scalar("builder.image_id")
      [] token = "BUILD_DOCKERFILE_PATH" -> Scalar("builder.source.dockerfile_path")
      [] token = "BUILD_SOURCE_PATH"     -> Scalar("builder.source.path")
      [] token = "BASE_IMAGE"            -> Scalar("builder.base_image.to_str()")

\* Variant of line 383 that takes the base image as always known.
BaseImageAlwaysKnown(b) == TRUE

\* Line 383: if self.workflow.builder.base_image
BaseImageKnown(b) == b.base_image # None

\* Lines 377-384: the keys of translation_dict.
translation_dict(b) ==
    {"BUILT_IMAGE_ID", "BUILD_DOCKERFILE_PATH", "BUILD_SOURCE_PATH"}
    \cup (IF BaseImageKnown(b) THEN {"BASE_IMAGE"} ELSE {})

\* Line 398: translation_dict.get(obj_to_translate, obj_to_translate)
TranslateScalar(b, obj) ==
    IF obj.s \in translation_dict(b) THEN LiveValue(obj.s) ELSE obj

\* Line 388: copy.deepcopy gives translated_dict nothing in common with the
\* object translated, so the assignments of line 390 do not reach it.
WritesReachOriginal == FALSE

\* BuildPluginsRunner._translate_special_values: out is the value returned,
\* src is the object that was passed in as the call leaves it.
RECURSIVE translate_special_values(_, _)
translate_special_values(b, obj) ==
    IF obj.t = "scalar"
    THEN [out |-> TranslateScalar(b, obj), src |-> obj]
    ELSE LET sub == [j \in 1..Len(obj.items) |->
                        translate_special_values(b, obj.items[j].val)]
             out == [obj EXCEPT !.items = [j \in 1..Len(obj.items) |->
                                              Item(obj.items[j].key, sub[j].out)]]
             src == [obj EXCEPT !.items = [j \in 1..Len(obj.items) |->
                                              Item(obj.items[j].key, sub[j].src)]]
         IN  [out |-> out,
              src |-> IF obj.t = "dict" /\ WritesReachOriginal THEN out ELSE src]

(***************************************************************************)
(* Constructor signatures as inspect.getfullargspec reports them: args are *)
(* the positional-or-keyword names (self included), kwonlyargs the         *)
(* keyword-only names, varkw whether **kwargs is declared.                 *)
(***************************************************************************)
Signature(n, a, k, v) == [name |-> n, args |-> a, kwonlyargs |-> k, varkw |-> v]

Constructors ==
    { \* PreBuildSleepPlugin.__init__(self, tasker, workflow, seconds=60)
      Signature("PreBuildSleepPlugin", {"self", "tasker", "workflow", "seconds"}, {}, FALSE),
      \* OCDockerbuildPlugin.__init__(self, tasker, workflow, export_image=False)
      Signature("OCDockerbuildPlugin", {"self", "tasker", "workflow", "export_image"}, {}, FALSE),
      \* BuildPlugin.__init__(self, tasker, workflow, *args, **kwargs), which a
      \* plugin without a constructor of its own inherits
      Signature("BuildPlugin", {"self", "tasker", "workflow"}, {}, TRUE),
      \* a plugin declaring __init__(self, tasker, workflow, *, seconds=60)
      Signature("KeywordOnlyPlugin", {"self", "tasker", "workflow"}, {"seconds"}, FALSE) }

\* Line 415: a key not in args is dropped.
KeptByFilter(sig, key) == key \in sig.args

\* BuildPluginsRunner._remove_unknown_args
remove_unknown_args(sig, conf) ==
    IF sig.varkw
    THEN conf
    ELSE Dict(SelectSeq(conf.items, LAMBDA e : KeptByFilter(sig, e.key)))

\* plugin_class(self.dt, self.workflow, **plugin_conf): the first two
\* positional arguments bind tasker and workflow (and the instance binds
\* self), so a keyword of one of these names is a TypeError.
CallConstructor(sig, kwargs) ==
    IF \E j \in 1..Len(kwargs.items) : kwargs.items[j].key \in {"self", "tasker", "workflow"}
    THEN [raised |-> "TypeError", kwargs |-> Dict(<< >>)]
    ELSE [raised |-> "None", kwargs |-> kwargs]

\* What the constructor call is handed when create_instance_from_plugin was
\* not called.
NotCalled == [raised |-> "None", kwargs |-> Dict(<< >>)]

(***************************************************************************)
(* Argument values a caller writes: a scalar, or a list or dict holding a  *)
(* deeper value with or without a scalar next to it.                       *)
(***************************************************************************)
Scalars == { Scalar(s) : s \in Tokens \cup {"not-a-token"} }

Siblings == { Scalar("not-a-token"), Scalar("BASE_IMAGE") }

Around(v) ==
    { List(<< v >>), Dict(<< Item("b", v) >>) }
    \cup { List(<< v, sib >>) : sib \in Siblings }
    \cup { Dict(<< Item("BUILT_IMAGE_ID", sib), Item("b", v) >>) : sib \in Siblings }

RECURSIVE ValuesUpTo(_)
ValuesUpTo(depth) ==
    IF depth = 0 THEN Scalars
    ELSE LET inner == ValuesUpTo(depth - 1)
         IN  inner \cup UNION { Around(v) : v \in inner }

\* The args dict of a plugin request: any of the keys seconds, export_image
\* and workflow, the value of seconds being nested up to MaxDepth.
ArgsDicts ==
    { Dict(first \o second \o third) :
        first \in { << >> } \cup { << Item("seconds", v) >> : v \in ValuesUpTo(MaxDepth - 1) },
        second \in { << >>, << Item("export_image", Scalar("not-a-token")) >>,
                     << Item("export_image", Scalar("BUILD_SOURCE_PATH")) >> },
        third \in { << >>, << Item("workflow", Scalar("not-a-token")) >> } }

\* workflow.builder: base_image is None until a base image is known.
Builders == { [base_image |-> None], [base_image |-> "ImageName"] }

VARIABLES
    builder,            \* self.workflow.builder
    plugin_class,       \* the signature of the class to instantiate
    plugin_args,        \* the caller's args dict, as it is now
    args_before,        \* the caller's args dict as create_instance_from_plugin got it
    translated,         \* what _translate_special_values returned
    known_plugin_conf,  \* what _remove_unknown_args returned
    instance,           \* the constructor call: [raised, kwargs]
    args_pc             \* "ready", "done"

argvars == << builder, plugin_class, plugin_args, args_before, translated,
              known_plugin_conf, instance, args_pc >>

\* No plugin is being instantiated.
ArgsIdle ==
    /\ builder = [base_image |-> None]
    /\ plugin_class = Signature("BuildPlugin", {"self", "tasker", "workflow"}, {}, TRUE)
    /\ plugin_args = Dict(<< >>)
    /\ args_before = Dict(<< >>)
    /\ translated = Dict(<< >>)
    /\ known_plugin_conf = Dict(<< >>)
    /\ instance = NotCalled
    /\ args_pc = "ready"

(***************************************************************************)
(* State.                                                                  *)
(***************************************************************************)
VARIABLES
    phase,              \* which phase runner the caller constructs
    keep_going,         \* run(keep_going=...)
    requests,           \* the request list as the caller wrote it
    request_list,       \* the caller's list object, as it is now
    autousable,         \* Input plugins whose is_autousable() answers True
    source_method,      \* workflow.builder.source.config.image_build_method
    pc,                 \* "new", "loop", "after_loop", "returned", "raised"
    plugins_conf,       \* self.plugins_conf
    available_plugins,  \* self.available_plugins
    index,              \* position of the next plugin of the for loop
    results_before,     \* the phase's result map when the runner was made
    plugins_results,    \* self.plugins_results, the phase's result map
    failed_msgs,        \* run()'s local list
    plugin_successful,  \* run()'s local
    plugin_response,    \* run()'s local
    workflow,           \* plugin_failed, plugins_errors, plugins_timestamps, plugins_durations
    raised,             \* the exception the caller gets, NoExc if none
    returned,           \* the value run() returned: [map, value]
    attempts            \* history: one record per plugin attempt of the loop

enginevars == << phase, keep_going, requests, request_list, autousable, source_method, pc,
                 plugins_conf, available_plugins, index, results_before, plugins_results,
                 failed_msgs, plugin_successful, plugin_response, workflow, raised, returned,
                 attempts >>

vars == << enginevars, argvars >>

inputs == << phase, keep_going, requests, autousable, source_method, results_before >>

\* workflow.default_image_build_method
system_method == "docker_api"

SourceMethods == {None, "oc_dockerbuild", "imagebuilder"}

InputKeys == {"path", "env"}

buildstep_phase == phase = "BuildStep"

\* self.autoinput, line 586
autoinput == phase = "Input" /\ requests # << >> /\ requests[1].name = "auto"

\* The phase's result map as the workflow holds it when the runner is made:
\* empty, or (for the phases of RunBefore) with an entry an earlier run
\* left.  InputPluginsRunner starts from a dict of its own.
StaleKey(ph) ==
    CASE ph = "PreBuild"   -> "pre_sleep"
      [] ph = "BuildStep"  -> "docker_api"
      [] ph = "PrePublish" -> "squash"
      [] ph = "PostBuild"  -> "tag_and_push"
      [] ph = "Exit"       -> "store_metadata"
      [] ph = "Input"      -> "path"

\* The phases whose map is looked at with an earlier entry in it.
RunBefore == {"PreBuild", "BuildStep"}

InitialResults(ph) ==
    IF ph \notin RunBefore THEN { << >> }
    ELSE { << >>, << [key |-> StaleKey(ph), val |-> Val("earlier", StaleKey(ph), 0)] >> }

NoReturn == [map |-> << >>, value |-> NoVal]

Init ==
    /\ phase \in Phases
    /\ keep_going \in BOOLEAN
    /\ requests \in RequestLists(phase)
    /\ request_list = requests
    /\ autousable \in (IF autoinput THEN SUBSET InputKeys ELSE { {} })
    /\ source_method \in (IF phase = "BuildStep" /\ requests = << >>
                          THEN SourceMethods ELSE { None })
    /\ pc = "new"
    /\ plugins_conf = << >>
    /\ available_plugins = << >>
    /\ index = 1
    /\ results_before \in InitialResults(phase)
    /\ plugins_results = results_before
    /\ failed_msgs = << >>
    /\ plugin_successful = FALSE
    /\ plugin_response = NoVal
    /\ workflow = [plugin_failed |-> FALSE, plugins_errors |-> << >>,
                   plugins_timestamps |-> {}, plugins_durations |-> {}]
    /\ raised = NoExc
    /\ returned = NoReturn
    /\ attempts = << >>
    /\ ArgsIdle

(***************************************************************************)
(* Hooks.  PluginsRunner's do nothing (the Input runner), and              *)
(* BuildPluginsRunner's write to the workflow.                             *)
(***************************************************************************)
\* Variant of lines 360-363 that leaves the workflow as it is.
FailureNotNoted(wf, plugin, exception) == wf

on_plugin_failed(wf, plugin, exception) ==
    IF phase = "Input" THEN wf
    ELSE [wf EXCEPT !.plugin_failed = TRUE,
                    !.plugins_errors =
                        IF plugin # None /\ Truthy(exception)
                        THEN Put(@, plugin, exception) ELSE @]

save_plugin_timestamp(wf, plugin) ==
    IF phase = "Input" THEN wf
    ELSE [wf EXCEPT !.plugins_timestamps = @ \cup {plugin}]

save_plugin_duration(wf, plugin) ==
    IF phase = "Input" THEN wf
    ELSE [wf EXCEPT !.plugins_durations = @ \cup {plugin}]

(***************************************************************************)
(* Construction.  Each phase constructor prepares the request list, then   *)
(* PluginsRunner.__init__ loads the registry and resolves the list.        *)
(***************************************************************************)
ForceNotRequired(plugin) ==
    [plugin EXCEPT !.required = {FALSE}, !.is_allowed_to_fail = {FALSE}]

\* Line 465: source_method or system_method.
SynthesizedMethod == IF source_method # None THEN source_method ELSE system_method

\* BuildStepPluginsRunner.__init__ before super().__init__: what it leaves in
\* the caller's list and the plugin_conf it passes on.
BuildStepConf(plugin_conf) ==
    IF plugin_conf # << >>
    THEN LET forced == [j \in 1..Len(plugin_conf) |-> ForceNotRequired(plugin_conf[j])]
         IN  [exc |-> NoExc, caller |-> forced, conf |-> forced]
    ELSE [exc |-> NoExc, caller |-> plugin_conf,
          conf |-> << Request(SynthesizedMethod, {}, {FALSE}) >>]

\* Variant of lines 595-599 that takes the first usable plugin found.
FirstUsableWins(usable) == FALSE

\* Lines 595-599: a second plugin answers is_autousable() after one was found.
MoreThanOneUsable(usable) == Cardinality(usable) > 1

\* InputPluginsRunner.__init__ before super().__init__.
InputConf(conf) ==
    IF conf = << >>
    THEN [exc |-> Exc("IndexError", << >>, 0), caller |-> conf, conf |-> conf]
    ELSE IF ~autoinput
    THEN [exc |-> NoExc, caller |-> conf, conf |-> conf]
    ELSE LET usable == { k \in RegisteredKeys("InputPlugin") : k \in autousable }
         IN  IF MoreThanOneUsable(usable)
             THEN [exc |-> PluginFailedException(
                               << Msg("More than one usable plugin with auto input", None, NoVal) >>),
                   caller |-> conf, conf |-> conf]
             ELSE IF usable = {}
             THEN [exc |-> PluginFailedException(
                               << Msg("No autousable input plugin", None, NoVal) >>),
                   caller |-> conf, conf |-> conf]
             ELSE LET chosen == [conf EXCEPT ![1].name = CHOOSE k \in usable : TRUE]
                  IN  [exc |-> NoExc, caller |-> chosen, conf |-> chosen]

PhaseConf(conf) ==
    IF phase = "BuildStep" THEN BuildStepConf(conf)
    ELSE IF phase = "Input" THEN InputConf(conf)
    ELSE [exc |-> NoExc, caller |-> conf, conf |-> conf]

NoSuchPlugin(name) == PluginFailedException(<< Msg("no such plugin", name, NoVal) >>)

Construct ==
    /\ pc = "new"
    /\ LET prepared == PhaseConf(request_list)
           resolved == get_available_plugins(PluginClassName(phase), prepared.conf, << >>)
       IN  /\ request_list' = prepared.caller
           /\ IF prepared.exc # NoExc
              THEN /\ pc' = "raised"
                   /\ raised' = prepared.exc
                   /\ UNCHANGED << plugins_conf, available_plugins, workflow >>
              ELSE /\ plugins_conf' = prepared.conf
                   /\ IF resolved.found
                      THEN /\ pc' = "loop"
                           /\ available_plugins' = resolved.plugins
                           /\ UNCHANGED << raised, workflow >>
                      ELSE /\ pc' = "raised"
                           /\ raised' = NoSuchPlugin(resolved.name)
                           /\ workflow' = on_plugin_failed(workflow, resolved.name,
                                                           Val("no such plugin", resolved.name, 0))
                           /\ UNCHANGED available_plugins
    /\ UNCHANGED << inputs, argvars, index, plugins_results, failed_msgs, plugin_successful,
                    plugin_response, returned, attempts >>

(***************************************************************************)
(* PluginsRunner.run: one step per iteration of the for loop.  stage says  *)
(* how far the attempt got inside the try block: "init" when               *)
(* create_instance_from_plugin raised, "run" when plugin_instance.run()    *)
(* was called.                                                             *)
(***************************************************************************)
Stages == {"init", "run"}

InLoop == pc = "loop" /\ index <= Len(available_plugins)

Attempt(plugin, stage, result) ==
    [index |-> index, name |-> plugin.name, key |-> plugin.key, stage |-> stage,
     result |-> result]

\* Variant of the for loop of line 256 that stays on the same entry.
SameEntryAgain(i) == i

\* The for loop of line 256 moves on to the next entry of the resolved list.
NextIndex(i) == i + 1

\* Variant of line 267 placed before the instance is created.
StampBeforeInstance(wf, plugin, stage) == save_plugin_timestamp(wf, plugin.key)

\* Line 267, reached once the instance exists.
Stamp(wf, plugin, stage) ==
    IF stage = "run" THEN save_plugin_timestamp(wf, plugin.key) ELSE wf

\* Variant of line 302 that never takes the fatal branch.
AlwaysNotFatal(plugin) == TRUE

\* Lines 302 and 309: whether the error is recorded and the loop goes on.
ErrorIsNotFatal(plugin) == plugin.is_allowed_to_fail \/ keep_going

\* Variant of line 326 without the break.
NeverStopsLoop(successful) == FALSE

\* Line 326: the loop stops after the first successful build step.
StopsLoop(successful) == successful /\ buildstep_phase

\* Variant of line 305 that keeps no message.
AccumulatesNothing(plugin) == FALSE

\* Line 305: a failure that may not happen is kept for the error raised
\* after the loop.
Accumulates(plugin) == ~plugin.is_allowed_to_fail

\* Variant of lines 323-324 that ignores skip_response.
RecordAlways(results, plugin, response, skip_response) ==
    Put(results, plugin.key, response)

\* Variant of lines 323-324 that keeps only successful responses.
RecordSuccessOnly(results, plugin, response, skip_response) ==
    IF ~skip_response /\ response.t \notin {"Exception", "BuildCanceledException"}
    THEN Put(results, plugin.key, response) ELSE results

\* Lines 323-324.
Record(results, plugin, response, skip_response) ==
    IF ~skip_response THEN Put(results, plugin.key, response) ELSE results

\* Variant of line 299 that notes the failure of every plugin.
NotesEveryFailure(plugin) == TRUE

\* Line 299: on_plugin_failed is called for a plugin that may not fail.
NotesFailure(plugin) == ~plugin.is_allowed_to_fail

\* Lines 295-329, the handler of an ordinary exception ex and what follows
\* it in the iteration; successful is plugin_successful when ex was raised.
HandleException(plugin, ex, successful, wf) ==
    LET msg == Msg("raised an exception", plugin.key, ex)
        wf_failed == IF NotesFailure(plugin)
                     THEN on_plugin_failed(wf, plugin.key, ex) ELSE wf
    IN  IF ErrorIsNotFatal(plugin)
        THEN /\ failed_msgs' = IF Accumulates(plugin)
                               THEN Append(failed_msgs, msg) ELSE failed_msgs
             /\ plugin_response' = ex
             /\ plugin_successful' = successful
             /\ workflow' = save_plugin_duration(wf_failed, plugin.key)
             /\ plugins_results' = Record(plugins_results, plugin, ex, FALSE)
             /\ pc' = IF StopsLoop(successful) THEN "after_loop" ELSE "loop"
             /\ index' = IF StopsLoop(successful) THEN index ELSE NextIndex(index)
             /\ UNCHANGED raised
        ELSE /\ raised' = PluginFailedException(<< msg >>)
             /\ pc' = "raised"
             /\ workflow' = wf_failed
             /\ plugin_successful' = successful
             /\ plugin_response' = NoVal
             /\ UNCHANGED << failed_msgs, plugins_results, index >>

ReturnKinds == IF buildstep_phase
               THEN {"BuildResult", "BuildResult_failed", "not_BuildResult"}
               ELSE {"response"}

\* Lines 268-280 and 313-329: plugin_instance.run() returned.
PluginReturns(result) ==
    /\ InLoop
    /\ LET plugin == available_plugins[index]
           response == Val(result, plugin.key, index)
           wf == save_plugin_timestamp(workflow, plugin.key)
       IN  /\ attempts' = Append(attempts, Attempt(plugin, "run", result))
           /\ IF buildstep_phase /\ result = "not_BuildResult"
              THEN HandleException(plugin, Val("AssertionError", plugin.key, index), TRUE, wf)
              ELSE IF buildstep_phase /\ result = "BuildResult_failed"
              THEN /\ workflow' = on_plugin_failed(wf, plugin.key,
                                                   Val("fail_reason", plugin.key, index))
                   /\ plugin_successful' = FALSE
                   /\ plugin_response' = response
                   /\ plugins_results' = Put(plugins_results, plugin.key, response)
                   /\ pc' = "after_loop"
                   /\ UNCHANGED << failed_msgs, raised, index >>
              ELSE /\ workflow' = save_plugin_duration(wf, plugin.key)
                   /\ plugin_successful' = TRUE
                   /\ plugin_response' = response
                   /\ plugins_results' = Record(plugins_results, plugin, response, FALSE)
                   /\ pc' = IF StopsLoop(TRUE) THEN "after_loop" ELSE "loop"
                   /\ index' = IF StopsLoop(TRUE) THEN index ELSE NextIndex(index)
                   /\ UNCHANGED << failed_msgs, raised >>
    /\ UNCHANGED << inputs, argvars, request_list, plugins_conf, available_plugins, returned >>

\* The exceptions the "except Exception" clause of line 295 catches.
OrdinaryExceptions == {"Exception", "BuildCanceledException"}

\* Lines 295-311 and 313-329.
PluginRaisesException(stage, type) ==
    /\ InLoop
    /\ LET plugin == available_plugins[index]
       IN  /\ attempts' = Append(attempts, Attempt(plugin, stage, type))
           /\ HandleException(plugin, Val(type, plugin.key, index), FALSE,
                              Stamp(workflow, plugin, stage))
    /\ UNCHANGED << inputs, argvars, request_list, plugins_conf, available_plugins, returned >>

\* Variant of lines 282-288 without the explicit re-raise: the cancellation
\* falls into the "except Exception" clause.
AutoRebuildCanceledAsOrdinary(stage) ==
    PluginRaisesException(stage, "AutoRebuildCanceledException")

\* Lines 282-288.
PluginRaisesAutoRebuildCanceled(stage) ==
    /\ InLoop
    /\ LET plugin == available_plugins[index]
       IN  /\ attempts' = Append(attempts,
                                 Attempt(plugin, stage, "AutoRebuildCanceledException"))
           /\ workflow' = Stamp(workflow, plugin, stage)
           /\ raised' = Exc("AutoRebuildCanceledException", << >>, index)
    /\ pc' = "raised"
    /\ plugin_successful' = FALSE
    /\ plugin_response' = NoVal
    /\ UNCHANGED << inputs, argvars, request_list, plugins_conf, available_plugins, returned,
                    failed_msgs, plugins_results, index >>

\* Variant of line 293 that swallows the signal in every phase.
InapplicableNeverReraised == FALSE

\* Line 293: outside the build-step phase the signal is raised again.
InapplicableReraised == ~buildstep_phase

\* Lines 289-294 and 313-329.
PluginRaisesInappropriateBuildStep(stage) ==
    /\ InLoop
    /\ LET plugin == available_plugins[index]
       IN  /\ attempts' = Append(attempts,
                                 Attempt(plugin, stage, "InappropriateBuildStepError"))
           /\ IF InapplicableReraised
              THEN /\ raised' = Exc("InappropriateBuildStepError", << >>, index)
                   /\ pc' = "raised"
                   /\ workflow' = Stamp(workflow, plugin, stage)
                   /\ UNCHANGED << index, plugins_results >>
              ELSE /\ workflow' = save_plugin_duration(Stamp(workflow, plugin, stage),
                                                       plugin.key)
                   /\ plugins_results' = Record(plugins_results, plugin, NoVal, TRUE)
                   /\ index' = NextIndex(index)
                   /\ UNCHANGED << raised, pc >>
    /\ plugin_successful' = FALSE
    /\ plugin_response' = NoVal
    /\ UNCHANGED << inputs, argvars, request_list, plugins_conf, available_plugins, returned,
                    failed_msgs >>

(***************************************************************************)
(* After the loop (lines 331-343), and what the phase runner's own run()   *)
(* does with the map PluginsRunner.run returned.                           *)
(***************************************************************************)
\* Variant of lines 331-337 that reports the first message only.
AggregateFirstOnly(msgs) == PluginFailedException(<< msgs[1] >>)

\* Lines 331-337.
AggregateError(msgs) ==
    IF Len(msgs) = 1
    THEN PluginFailedException(<< msgs[1] >>)
    ELSE PluginFailedException(<< Msg("Multiple plugins raised an exception", None, NoVal) >>
                               \o msgs)

\* Variant of line 339 that does not look at the last response.
NoBuildStepWhateverResponse(successful, response) == ~successful /\ buildstep_phase

\* Line 339.
NoBuildStep(successful, response) == ~successful /\ buildstep_phase /\ ~Truthy(response)

\* BuildStepPluginsRunner.run line 485: list(plugins_results.values())[0]
FirstValue(results) == results[1].val

\* Variant of lines 614-616 that leaves the entry under the plugin's key.
KeepRealKey(result) == result

\* InputPluginsRunner.run lines 614-616.
RenameAuto(result) ==
    IF autoinput
    THEN LET real == plugins_conf[1].name
         IN  Put(Pop(result, real), "auto", Get(result, real))
    ELSE result

LoopOver == pc = "after_loop" \/ (pc = "loop" /\ index > Len(available_plugins))

AfterLoop ==
    /\ LoopOver
    /\ IF Len(failed_msgs) >= 1
       THEN /\ raised' = AggregateError(failed_msgs)
            /\ pc' = "raised"
            /\ UNCHANGED << workflow, plugins_results, returned >>
       ELSE IF NoBuildStep(plugin_successful, plugin_response)
       THEN /\ workflow' = on_plugin_failed(workflow, "BuildStepPlugin",
                                            Val("No appropriate build step", None, 0))
            /\ raised' = PluginFailedException(
                             << Msg("No appropriate build step", None, NoVal) >>)
            /\ pc' = "raised"
            /\ UNCHANGED << plugins_results, returned >>
       ELSE /\ pc' = "returned"
            /\ plugins_results' = RenameAuto(plugins_results)
            /\ returned' = IF buildstep_phase
                           THEN [map |-> << >>, value |-> FirstValue(plugins_results)]
                           ELSE [map |-> plugins_results', value |-> NoVal]
            /\ UNCHANGED << workflow, raised >>
    /\ UNCHANGED << inputs, argvars, request_list, plugins_conf, available_plugins, index,
                    failed_msgs, plugin_successful, plugin_response, attempts >>

Next ==
    \/ Construct
    \/ \E result \in ReturnKinds : PluginReturns(result)
    \/ \E stage \in Stages : PluginRaisesAutoRebuildCanceled(stage)
    \/ \E stage \in Stages : PluginRaisesInappropriateBuildStep(stage)
    \/ \E stage \in Stages, type \in OrdinaryExceptions : PluginRaisesException(stage, type)
    \/ AfterLoop

Spec == Init /\ [][Next]_vars

(***************************************************************************)
(* BuildPluginsRunner.create_instance_from_plugin on its own: a runner     *)
(* that is about to instantiate one plugin class with one args dict.       *)
(***************************************************************************)
\* A runner of the pre-build phase with nothing requested.
EngineIdle ==
    /\ phase = "PreBuild"
    /\ keep_going = FALSE
    /\ requests = << >>
    /\ request_list = << >>
    /\ autousable = {}
    /\ source_method = None
    /\ pc = "new"
    /\ plugins_conf = << >>
    /\ available_plugins = << >>
    /\ index = 1
    /\ results_before = << >>
    /\ plugins_results = << >>
    /\ failed_msgs = << >>
    /\ plugin_successful = FALSE
    /\ plugin_response = NoVal
    /\ workflow = [plugin_failed |-> FALSE, plugins_errors |-> << >>,
                   plugins_timestamps |-> {}, plugins_durations |-> {}]
    /\ raised = NoExc
    /\ returned = NoReturn
    /\ attempts = << >>

ArgsInit ==
    /\ EngineIdle
    /\ builder \in Builders
    /\ plugin_class \in Constructors
    /\ plugin_args \in ArgsDicts
    /\ args_before = plugin_args
    /\ translated = Dict(<< >>)
    /\ known_plugin_conf = Dict(<< >>)
    /\ instance = NotCalled
    /\ args_pc = "ready"

\* Lines 424-429.
create_instance_from_plugin ==
    /\ args_pc = "ready"
    /\ LET translation == translate_special_values(builder, plugin_args)
           plugin_conf == remove_unknown_args(plugin_class, translation.out)
       IN  /\ translated' = translation.out
           /\ plugin_args' = translation.src
           /\ known_plugin_conf' = plugin_conf
           /\ instance' = CallConstructor(plugin_class, plugin_conf)
    /\ args_pc' = "done"
    /\ UNCHANGED << enginevars, builder, plugin_class, args_before >>

ArgsNext == create_instance_from_plugin

ArgsSpec == ArgsInit /\ [][ArgsNext]_vars

(***************************************************************************)
(* Properties.  attempts records, for every iteration of the loop that was *)
(* entered, which resolved entry it was for and how the attempt ended.     *)
(***************************************************************************)
Resolved(a) == available_plugins[a.index]

\* The plugin raised an error that is neither a cancellation nor the
\* inapplicability signal.
OrdinaryError(a) == a.result = "Exception"

ForbiddenOrdinary(a) == OrdinaryError(a) /\ ~Resolved(a).is_allowed_to_fail

AllowedOrdinary(a) == OrdinaryError(a) /\ Resolved(a).is_allowed_to_fail

\* The exception object the engine caught for the attempt.
ErrorOf(a) ==
    Val(IF a.result = "not_BuildResult" THEN "AssertionError" ELSE a.result, a.key, a.index)

MsgOf(a) == Msg("raised an exception", a.key, ErrorOf(a))

InMsgs(m, msgs) == \E j \in 1..Len(msgs) : msgs[j] = m

Cancellations == {"BuildCanceledException", "AutoRebuildCanceledException"}

\* C1: a not-allowed-to-fail plugin raising an ordinary error with keep_going
\* off makes the run raise PluginFailedException with that plugin's message
\* at once: it is the last attempt of the run, and nothing is recorded.
C1_FatalFailureStopsPhase ==
    \A j \in 1..Len(attempts) :
        (ForbiddenOrdinary(attempts[j]) /\ ~keep_going) =>
            /\ pc = "raised"
            /\ raised = PluginFailedException(<< MsgOf(attempts[j]) >>)
            /\ j = Len(attempts)
            /\ index = attempts[j].index
            /\ returned = NoReturn

C1_Witness ==
    /\ ~keep_going
    /\ \E j \in 1..Len(attempts) :
           ForbiddenOrdinary(attempts[j]) /\ attempts[j].index < Len(available_plugins)

\* The not-allowed-to-fail attempts the "except Exception" clause handled.
ForbiddenFailure(a) ==
    /\ a.result \in {"Exception", "BuildCanceledException", "not_BuildResult"}
    /\ ~Resolved(a).is_allowed_to_fail

ForbiddenMsgs ==
    LET failures == SelectSeq(attempts, ForbiddenFailure)
    IN  [j \in 1..Len(failures) |-> MsgOf(failures[j])]

\* The error raised after the loop for a non-empty list of messages.
ExpectedAggregate(msgs) ==
    IF Len(msgs) = 1
    THEN [type |-> "PluginFailedException", msgs |-> << msgs[1] >>, by |-> 0]
    ELSE [type |-> "PluginFailedException",
          msgs |-> << Msg("Multiple plugins raised an exception", None, NoVal) >> \o msgs,
          by |-> 0]

\* C2: under keep_going a not-allowed-to-fail ordinary error does not raise
\* where it happens, the loop goes on with the next entry, the accumulator
\* holds exactly the messages of the not-allowed-to-fail failures in the
\* order met, and the error raised after the loop carries exactly those (one
\* message, or the combined listing); the run never returns normally.
C2_KeepGoingAggregates ==
    keep_going =>
        /\ failed_msgs = ForbiddenMsgs
        /\ \A j \in 1..Len(attempts) :
               ForbiddenOrdinary(attempts[j]) =>
                   /\ j < Len(attempts) => attempts[j + 1].index = attempts[j].index + 1
                   /\ j = Len(attempts) =>
                          /\ index = attempts[j].index + 1
                          /\ pc \in {"loop", "raised"}
                          /\ pc = "raised" => raised = ExpectedAggregate(ForbiddenMsgs)
                   /\ pc # "returned"
        /\ (ForbiddenMsgs # << >> /\ pc = "raised" /\ raised.type = "PluginFailedException")
               => raised = ExpectedAggregate(ForbiddenMsgs)

C2_Witness ==
    /\ keep_going
    /\ pc = "raised"
    /\ Len(attempts) = 2
    /\ ForbiddenOrdinary(attempts[1])
    /\ ForbiddenOrdinary(attempts[2])
    /\ Len(raised.msgs) = 3

\* C3: a cancellation raised by a plugin (build canceled or auto-rebuild
\* canceled) reaches the caller as that same exception, is never recorded
\* as the plugin's response and never added to the accumulator.
C3_CancellationAlwaysPropagates ==
    \A j \in 1..Len(attempts) :
        attempts[j].result \in Cancellations =>
            /\ pc = "raised"
            /\ raised = Exc(attempts[j].result, << >>, attempts[j].index)
            /\ \A k \in 1..Len(plugins_results) :
                   plugins_results[k].val # ErrorOf(attempts[j])
            /\ ~InMsgs(MsgOf(attempts[j]), failed_msgs)

\* C4: an auto-rebuild cancellation aborts the phase in every mode: it is the
\* last attempt, the caller gets that exception, and the result map holds no
\* entry made by the cancelling attempt or a later one.
C4_AutoRebuildCancelAborts ==
    \A j \in 1..Len(attempts) :
        attempts[j].result = "AutoRebuildCanceledException" =>
            /\ j = Len(attempts)
            /\ pc = "raised"
            /\ raised = Exc("AutoRebuildCanceledException", << >>, attempts[j].index)
            /\ \A k \in 1..Len(plugins_results) :
                   plugins_results[k].val.by < attempts[j].index
            /\ returned = NoReturn

C4_Witness ==
    /\ keep_going
    /\ Len(available_plugins) = 2
    /\ Len(attempts) = 1
    /\ attempts[1].result = "AutoRebuildCanceledException"

\* The requests of conf that name no registered plugin and are required.
MissingRequired(conf) ==
    { j \in 1..Len(conf) :
        /\ conf[j].name \notin RegisteredKeys(PluginClassName(phase))
        /\ GetOr(conf[j].required, TRUE) }

First(S) == CHOOSE j \in S : \A k \in S : j <= k

\* C5 as stated: whenever the caller's list has a required request (required
\* omitted or true) for a plugin the registry lacks, construction raises
\* PluginFailedException and no plugin is attempted.  ("auto" is left to the
\* Input runner's own selection.)
C5_CallerRequiredUnknownRaises ==
    pc # "new" =>
        ((\E j \in MissingRequired(requests) : requests[j].name # "auto") =>
            /\ pc = "raised"
            /\ raised.type = "PluginFailedException"
            /\ attempts = << >>)

\* C5 amended: resolution reads the list the phase constructor prepared
\* (plugins_conf: the caller's list, except that BuildStep forces
\* required=false on configured requests and Input replaces a first "auto");
\* if a request of it is unknown and required, construction raises
\* PluginFailedException naming the first such plugin, nothing is resolved
\* and no plugin is ever attempted, whichever requests precede it.
C5_RequiredUnknownRaises ==
    pc # "new" =>
        /\ (phase # "BuildStep" /\ ~autoinput) => plugins_conf = requests
        /\ MissingRequired(plugins_conf) # {} =>
               /\ pc = "raised"
               /\ raised = [type |-> "PluginFailedException",
                            msgs |-> << Msg("no such plugin",
                                            plugins_conf[First(MissingRequired(plugins_conf))].name,
                                            NoVal) >>,
                            by |-> 0]
               /\ available_plugins = << >>
               /\ attempts = << >>
               /\ plugins_results = results_before

C5_Witness ==
    /\ pc = "raised"
    /\ phase = "PreBuild"
    /\ Len(requests) = 2
    /\ requests[1].name = "pre_check"
    /\ requests[2].name = "no_such_plugin"
    /\ requests[2].required = {}

KnownRequest(req) == req.name \in RegisteredKeys(PluginClassName(phase))

\* C6: when every unknown request of the prepared list has required=false,
\* resolution raises nothing, the resolved list is exactly the requests with
\* registered names in their order (each with its effective allowed-to-fail),
\* and the loop attempts exactly those, in order: all of them by the time the
\* run returns.
C6_OptionalUnknownOmitted ==
    LET kept == SelectSeq(plugins_conf, KnownRequest)
    IN  (/\ pc # "new"
         /\ \E j \in 1..Len(plugins_conf) : ~KnownRequest(plugins_conf[j])
         /\ MissingRequired(plugins_conf) = {})
        =>
        /\ ~(pc = "raised" /\ raised.type = "PluginFailedException"
                /\ raised.msgs[1].text = "no such plugin")
        /\ Len(available_plugins) = Len(kept)
        /\ \A j \in 1..Len(kept) :
               /\ available_plugins[j].name = kept[j].name
               /\ available_plugins[j].is_allowed_to_fail =
                      GetOr(kept[j].is_allowed_to_fail,
                            ClassOf(PluginClassName(phase), kept[j].name).is_allowed_to_fail)
        /\ \A j \in 1..Len(attempts) :
               attempts[j].index = j /\ attempts[j].name = kept[j].name
        /\ (pc = "returned" /\ ~buildstep_phase) => Len(attempts) = Len(kept)

\* A registered plugin, an unknown optional one and a different registered
\* plugin: both registered ones were attempted, in the order of the requests.
C6_Witness ==
    /\ pc = "returned"
    /\ phase = "PreBuild"
    /\ Len(plugins_conf) = 3
    /\ plugins_conf[1].name = "pre_check"
    /\ plugins_conf[2].name = "no_such_plugin"
    /\ plugins_conf[2].required = {FALSE}
    /\ plugins_conf[3].name = "pre_sleep"
    /\ Len(available_plugins) = 2
    /\ Len(attempts) = 2
    /\ attempts[1].name = "pre_check"
    /\ attempts[2].name = "pre_sleep"

\* No later attempt of the run was for the same plugin key.
NotAttemptedAgain(j) ==
    \A k \in (j + 1)..Len(attempts) : attempts[k].key # attempts[j].key

\* What C7 says of every part but the result map: the failure of an
\* allowed-to-fail plugin is never accumulated, the loop goes on with the
\* next entry, and a run with nothing but successes and such failures
\* returns.
AllowedFailureGoesOn ==
    /\ \A j \in 1..Len(attempts) :
           AllowedOrdinary(attempts[j]) =>
               /\ ~InMsgs(MsgOf(attempts[j]), failed_msgs)
               /\ j < Len(attempts) => attempts[j + 1].index = attempts[j].index + 1
               /\ j = Len(attempts) =>
                      /\ index = attempts[j].index + 1
                      /\ pc \in {"loop", "returned", "raised"}
                      /\ pc = "raised" => /\ raised = ExpectedAggregate(failed_msgs)
                                          /\ failed_msgs # << >>
    /\ (/\ pc \in {"returned", "raised"}
        /\ attempts # << >>
        /\ \A j \in 1..Len(attempts) :
               attempts[j].result = "response" \/ AllowedOrdinary(attempts[j]))
       => pc = "returned"

\* C7 as stated: the failure of an allowed-to-fail plugin goes on as above,
\* and when the run has returned the result map holds the plugin's key
\* mapped to the captured error.
C7_MapEndsUpWithKey ==
    /\ AllowedFailureGoesOn
    /\ pc = "returned" =>
           \A j \in 1..Len(attempts) :
               AllowedOrdinary(attempts[j]) =>
                   /\ Has(plugins_results, attempts[j].key)
                   /\ Get(plugins_results, attempts[j].key) = ErrorOf(attempts[j])

\* The key an attempt's entry is found under: the Input runner's run() moves
\* the entry of the plugin chosen for "auto" to the key "auto" on return.
KeyNow(a) ==
    IF pc = "returned" /\ autoinput /\ a.key = plugins_conf[1].name THEN "auto" ELSE a.key

\* C7 amended: the failure of an allowed-to-fail plugin goes on as above, and
\* from the end of the attempt on the result map holds the captured error
\* under the plugin's key, until a later attempt for the same key replaces
\* it; on return the Input runner moves the entry of the plugin chosen for
\* "auto" to the key "auto".
C7_AllowedFailureRecorded ==
    /\ AllowedFailureGoesOn
    /\ \A j \in 1..Len(attempts) :
           (AllowedOrdinary(attempts[j]) /\ NotAttemptedAgain(j)) =>
               /\ Has(plugins_results, KeyNow(attempts[j]))
               /\ Get(plugins_results, KeyNow(attempts[j])) = ErrorOf(attempts[j])
               /\ KeyNow(attempts[j]) # attempts[j].key
                      => ~Has(plugins_results, attempts[j].key)

C7_Witness ==
    /\ pc = "returned"
    /\ phase = "Exit"
    /\ ~keep_going
    /\ Len(attempts) = 2
    /\ AllowedOrdinary(attempts[1])
    /\ attempts[2].result = "response"
    /\ attempts[2].key # attempts[1].key

\* C8: a run that returns normally had no not-allowed-to-fail plugin raise an
\* ordinary error; when such an error happened and the run raised
\* PluginFailedException, that error's message is in it.
C8_NoForbiddenErrorDropped ==
    \A j \in 1..Len(attempts) :
        ForbiddenOrdinary(attempts[j]) =>
            /\ pc # "returned"
            /\ returned = NoReturn
            /\ (pc = "raised" /\ raised.type = "PluginFailedException")
                   => InMsgs(MsgOf(attempts[j]), raised.msgs)
            /\ pc = "raised" =>
                   raised.type \in {"PluginFailedException", "AutoRebuildCanceledException",
                                    "InappropriateBuildStepError"}

C8_Witness ==
    /\ keep_going
    /\ pc = "raised"
    /\ Len(attempts) = 2
    /\ ForbiddenOrdinary(attempts[1])
    /\ attempts[2].result = "response"

\* C9: build-step phase starting from an empty result map: when every
\* earlier candidate was inapplicable and the last one attempted succeeded,
\* the phase returns that candidate's BuildResult and the result map is
\* exactly that one entry.
C9_FirstApplicableStepWins ==
    (/\ buildstep_phase
     /\ results_before = << >>
     /\ pc = "returned"
     /\ attempts # << >>
     /\ attempts[Len(attempts)].result = "BuildResult"
     /\ \A j \in 1..(Len(attempts) - 1) : attempts[j].result = "InappropriateBuildStepError")
    =>
    LET winner == attempts[Len(attempts)]
    IN  /\ returned.value = Val("BuildResult", winner.key, winner.index)
        /\ plugins_results =
               << [key |-> winner.key, val |-> Val("BuildResult", winner.key, winner.index)] >>

C9_Witness ==
    /\ buildstep_phase
    /\ results_before = << >>
    /\ pc = "returned"
    /\ Len(attempts) = 2
    /\ attempts[1].result = "InappropriateBuildStepError"
    /\ attempts[2].result = "BuildResult"
    /\ attempts[1].key # attempts[2].key

\* C10: in the build-step phase a candidate whose run() succeeded is the last
\* attempt of the run: no later candidate is instantiated or run.
C10_FirstSuccessStopsLoop ==
    buildstep_phase =>
        \A j \in 1..Len(attempts) :
            attempts[j].result = "BuildResult" =>
                /\ j = Len(attempts)
                /\ pc # "loop"
                /\ index = attempts[j].index

C10_Witness ==
    /\ buildstep_phase
    /\ pc = "returned"
    /\ Len(available_plugins) = 2
    /\ Len(attempts) = 1
    /\ attempts[1].result = "BuildResult"

\* The run ended with PluginFailedException whose first message has this text.
RaisedText(text) ==
    /\ pc = "raised"
    /\ raised.type = "PluginFailedException"
    /\ raised.msgs[1].text = text

\* The constructor raised: run() was never entered.
ConstructionFailed ==
    \/ RaisedText("no such plugin")
    \/ RaisedText("More than one usable plugin with auto input")
    \/ RaisedText("No autousable input plugin")
    \/ (pc = "raised" /\ raised.type = "IndexError")

Inapplicable(a) == a.result = "InappropriateBuildStepError"

\* The loop of run() went through the whole resolved list and every
\* candidate raised the inapplicability signal (none, for an empty list).
AllCandidatesInapplicable ==
    /\ Len(attempts) = Len(available_plugins)
    /\ \A j \in 1..Len(attempts) : attempts[j].index = j /\ Inapplicable(attempts[j])

\* C11: the build-step run ends in PluginFailedException("No appropriate
\* build step") exactly when its loop went through the whole resolved list
\* with every candidate inapplicable (an empty resolved list included); then
\* it returns nothing and the result map is what it was before the run.
C11_NoViableBuildStepIff ==
    (buildstep_phase /\ pc \in {"raised", "returned"} /\ ~ConstructionFailed) =>
        /\ RaisedText("No appropriate build step") <=> AllCandidatesInapplicable
        /\ RaisedText("No appropriate build step") =>
               /\ raised = PluginFailedException(
                               << Msg("No appropriate build step", None, NoVal) >>)
               /\ returned = NoReturn
               /\ plugins_results = results_before

C11_Witness ==
    /\ buildstep_phase
    /\ RaisedText("No appropriate build step")
    /\ Len(attempts) = 2
    /\ Inapplicable(attempts[1])
    /\ Inapplicable(attempts[2])

\* The same end for a resolved list that is empty because every configured
\* candidate is unregistered.
C11_WitnessEmpty ==
    /\ buildstep_phase
    /\ RaisedText("No appropriate build step")
    /\ requests # << >>
    /\ available_plugins = << >>

\* C12: with no build-step plugin configured, when the method the synthesized
\* request names is not a registered build-step plugin, the phase ends in
\* PluginFailedException("No appropriate build step") raised by run(), and
\* not in the "no such plugin" error of resolution.
C12_SynthesizedRequestNotRequired ==
    (/\ buildstep_phase
     /\ requests = << >>
     /\ SynthesizedMethod \notin RegisteredKeys("BuildStepPlugin")
     /\ pc \in {"raised", "returned"})
    =>
    /\ RaisedText("No appropriate build step")
    /\ ~RaisedText("no such plugin")

\* No entry of the result map was made by the attempt.
NothingRecordedBy(a) ==
    \A k \in 1..Len(plugins_results) : plugins_results[k].val.by # a.index

\* C13: outside the build-step phase InappropriateBuildStepError raised by a
\* plugin reaches the caller as it is, with keep_going or without: it is the
\* last attempt, nothing the attempt produced is in the result map and
\* nothing is returned.  In the build-step phase it never reaches the caller,
\* nothing is recorded for the candidate and the loop goes on with the next
\* resolved candidate.
C13_InapplicabilityOutsideBuildStep ==
    \A j \in 1..Len(attempts) :
        Inapplicable(attempts[j]) =>
            /\ NothingRecordedBy(attempts[j])
            /\ IF buildstep_phase
               THEN /\ ~(pc = "raised" /\ raised.type = "InappropriateBuildStepError")
                    /\ j < Len(attempts) => attempts[j + 1].index = attempts[j].index + 1
                    /\ j = Len(attempts) =>
                           /\ index = attempts[j].index + 1
                           /\ pc \in {"loop", "raised"}
               ELSE /\ j = Len(attempts)
                    /\ pc = "raised"
                    /\ raised = Exc("InappropriateBuildStepError", << >>, attempts[j].index)
                    /\ index = attempts[j].index
                    /\ returned = NoReturn

C13_Witness ==
    /\ ~buildstep_phase
    /\ keep_going
    /\ Len(available_plugins) = 2
    /\ Len(attempts) = 1
    /\ Inapplicable(attempts[1])
    /\ pc = "raised"

\* The build-step side: a swallowed signal followed by the next candidate.
C13_WitnessBuildStep ==
    /\ buildstep_phase
    /\ Len(attempts) = 2
    /\ Inapplicable(attempts[1])
    /\ attempts[2].index = 2

\* The last attempt of the run made for the plugin key.
LastAttemptFor(key) ==
    attempts[CHOOSE j \in 1..Len(attempts) :
                 /\ attempts[j].key = key
                 /\ \A k \in (j + 1)..Len(attempts) : attempts[k].key # key]

\* C14: Input phase asked for "auto" with exactly one registered Input plugin
\* answering is_autousable(): the first request is resolved to that plugin,
\* it is the first plugin run, and the map run() returns holds that plugin's
\* response under "auto" and nothing under the plugin's own key (for a
\* single request, "auto" is the map's only entry).
C14_AutoRunsTheOneUsable ==
    (autoinput /\ Cardinality(autousable) = 1 /\ pc # "new") =>
        LET chosen == CHOOSE k \in autousable : TRUE
        IN  /\ ~ConstructionFailed =>
                   /\ plugins_conf[1].name = chosen
                   /\ available_plugins[1].key = chosen
            /\ attempts # << >> => attempts[1].key = chosen /\ attempts[1].index = 1
            /\ pc = "returned" =>
                   /\ attempts # << >>
                   /\ returned.map = plugins_results
                   /\ Has(returned.map, "auto")
                   /\ ~Has(returned.map, chosen)
                   /\ Get(returned.map, "auto") = ErrorOf(LastAttemptFor(chosen))
                   /\ Len(requests) = 1 => Len(returned.map) = 1

C14_Witness ==
    /\ autoinput
    /\ autousable = {"env"}
    /\ pc = "returned"
    /\ Len(attempts) = 1
    /\ attempts[1].result = "response"
    /\ Keys(returned.map) = {"auto"}

\* C15: Input phase asked for "auto" with no registered Input plugin, or more
\* than one, answering is_autousable(): the constructor raises
\* PluginFailedException (the "No autousable input plugin" or the "More than
\* one usable plugin" error), nothing is resolved and no plugin is ever
\* instantiated or run.
C15_AutoAmbiguousOrNoneRaises ==
    (autoinput /\ Cardinality(autousable) # 1 /\ pc # "new") =>
        /\ pc = "raised"
        /\ raised = PluginFailedException(
                        << Msg(IF autousable = {}
                               THEN "No autousable input plugin"
                               ELSE "More than one usable plugin with auto input",
                               None, NoVal) >>)
        /\ available_plugins = << >>
        /\ attempts = << >>
        /\ plugins_results = << >>
        /\ returned = NoReturn

C15_Witness ==
    /\ autoinput
    /\ autousable = {"path", "env"}
    /\ RaisedText("More than one usable plugin with auto input")

\* The same for no usable plugin at all.
C15_WitnessNone ==
    /\ autoinput
    /\ autousable = {}
    /\ RaisedText("No autousable input plugin")

\* The entry is not one the result map held when the runner was made.
AddedByRun(e) == \A k \in 1..Len(results_before) : results_before[k] # e

\* The attempt ended in success (run() returned a response, in the build-step
\* phase a BuildResult that does not report failure).
Succeeded(a) == a.result \in {"response", "BuildResult"}

\* The attempt ended in a failure the engine recorded: a BuildResult that
\* reports failure, or an error caught by "except Exception" that was not
\* fatal.
RecordedFailure(a) ==
    \/ a.result = "BuildResult_failed"
    \/ /\ a.result \in {"Exception", "BuildCanceledException", "not_BuildResult"}
       /\ (Resolved(a).is_allowed_to_fail \/ keep_going)

\* C16: at every point of a phase run, each entry of the result map that the
\* run added was made by an attempt that ended in success or in a recorded
\* failure, holds that attempt's response or error, and sits under that
\* plugin's key ("auto" for the plugin chosen for "auto" once the Input run
\* returned); no entry is ever made by an attempt that raised
\* InappropriateBuildStepError.
C16_EntriesComeFromCompletedAttempts ==
    /\ \A k \in 1..Len(plugins_results) :
           AddedByRun(plugins_results[k]) =>
               \E j \in 1..Len(attempts) :
                   /\ attempts[j].index = plugins_results[k].val.by
                   /\ plugins_results[k].val = ErrorOf(attempts[j])
                   /\ plugins_results[k].key = KeyNow(attempts[j])
                   /\ Succeeded(attempts[j]) \/ RecordedFailure(attempts[j])
                   /\ ~Inapplicable(attempts[j])
    /\ \A j \in 1..Len(attempts) :
           Inapplicable(attempts[j]) =>
               /\ NothingRecordedBy(attempts[j])
               /\ Keys(plugins_results) \ Keys(results_before)
                      \subseteq { attempts[k].key : k \in 1..Len(attempts) \ {j} }

C16_Witness ==
    /\ buildstep_phase
    /\ Len(attempts) = 2
    /\ Inapplicable(attempts[1])
    /\ Succeeded(attempts[2])
    /\ attempts[1].key # attempts[2].key
    /\ Has(plugins_results, attempts[2].key)
    /\ ~Has(plugins_results, attempts[1].key)

\* C17: within one run the attempts follow the resolved list: the j-th
\* attempt is for the j-th resolved entry, no entry is attempted twice
\* (whatever the outcome of its attempt), and the entry the loop would start
\* next lies after every entry attempted so far unless the loop was left.
C17_SequentialOncePerEntry ==
    /\ Len(attempts) <= Len(available_plugins)
    /\ \A j \in 1..Len(attempts) :
           /\ attempts[j].index = j
           /\ attempts[j].name = available_plugins[j].name
           /\ attempts[j].key = available_plugins[j].key
    /\ \A j, k \in 1..Len(attempts) :
           attempts[j].index = attempts[k].index => j = k
    /\ pc = "loop" => index = Len(attempts) + 1
    /\ pc \in {"after_loop", "returned", "raised"} =>
           index \in {Len(attempts), Len(attempts) + 1}

C17_Witness ==
    /\ pc = "returned"
    /\ Len(available_plugins) = 2
    /\ available_plugins[1].key # available_plugins[2].key
    /\ Len(attempts) = 2
    /\ AllowedOrdinary(attempts[1])
    /\ Succeeded(attempts[2])

(***************************************************************************)
(* Properties of argument preparation, checked under ArgsSpec.             *)
(***************************************************************************)
\* The reserved values that have a live value now.
RecognizedNow ==
    {"BUILT_IMAGE_ID", "BUILD_DOCKERFILE_PATH", "BUILD_SOURCE_PATH"}
    \cup (IF builder.base_image # None THEN {"BASE_IMAGE"} ELSE {})

\* out has the shape of in, with the same keys, and differs from it exactly
\* in the scalars that are recognized tokens, which hold the live value.
RECURSIVE Substituted(_, _)
Substituted(in, out) ==
    IF in.t = "scalar"
    THEN out = (IF in.s \in RecognizedNow THEN LiveValue(in.s) ELSE in)
    ELSE /\ out.t = in.t
         /\ Len(out.items) = Len(in.items)
         /\ \A j \in 1..Len(in.items) :
                /\ out.items[j].key = in.items[j].key
                /\ Substituted(in.items[j].val, out.items[j].val)

\* C18: the value _translate_special_values returns is the argument
\* structure with every scalar value, at any depth of dicts and lists, that
\* equals BUILT_IMAGE_ID, BUILD_DOCKERFILE_PATH, BUILD_SOURCE_PATH, or
\* BASE_IMAGE while a base image is known, replaced by the live value, every
\* other scalar (BASE_IMAGE without a base image included) and every key as
\* it was; the caller's structure is after the call what it was before.
C18_SpecialValuesSubstituted ==
    args_pc = "done" =>
        /\ Substituted(args_before, translated)
        /\ plugin_args = args_before

C18_Witness ==
    /\ args_pc = "done"
    /\ builder.base_image = None
    /\ Len(args_before.items) = 1
    /\ args_before.items[1].val =
           List(<< Dict(<< Item("BUILT_IMAGE_ID", Scalar("BASE_IMAGE")),
                            Item("b", Scalar("BUILT_IMAGE_ID")) >>),
                    Scalar("not-a-token") >>)
    /\ translated.items[1].val =
           List(<< Dict(<< Item("BUILT_IMAGE_ID", Scalar("BASE_IMAGE")),
                            Item("b", Scalar("builder.image_id")) >>),
                    Scalar("not-a-token") >>)
    /\ plugin_args = args_before

\* The parameter names the constructor declares.
Declared(sig) == sig.args \cup sig.kwonlyargs

DeclaredItem(e) == e.key \in Declared(plugin_class)

\* C19: for a constructor without **kwargs the map handed to the constructor
\* is the prepared (translated) arguments restricted to the parameter names
\* the constructor declares, every declared key kept with its value and
\* every other key dropped; for a constructor with **kwargs it is the
\* prepared arguments unchanged.
C19_FilteredToDeclaredParameters ==
    args_pc = "done" =>
        known_plugin_conf =
            IF plugin_class.varkw
            THEN translated
            ELSE Dict(SelectSeq(translated.items, DeclaredItem))

\* C20: in the phases that keep durations in the workflow (every phase but
\* Input), each plugin whose attempt was started has a duration saved under
\* its key once the attempt is over, whatever its outcome.
C20_DurationWhateverOutcome ==
    phase # "Input" =>
        \A j \in 1..Len(attempts) : attempts[j].key \in workflow.plugins_durations

(***************************************************************************)
(* Properties of the engine, continued (checked under Spec).               *)
(***************************************************************************)
\* C21: once a phase runner of any phase has been constructed (or its
\* constructor has raised), every request of the caller's list still has the
\* name, the required flag and the is_allowed_to_fail override the caller
\* supplied.
C21_RequestListReadOnly ==
    pc # "new" => request_list = requests

\* The attempt put an entry into the result map (line 324 or line 279).
MadeEntry(a) == Succeeded(a) \/ RecordedFailure(a)

\* C22: the run only adds to the phase's result map: every entry the map held
\* before the run is still there with its value, and so is every entry an
\* attempt of the run made.
C22_ResultMapAppendOnly ==
    /\ \A k \in 1..Len(results_before) :
           /\ Has(plugins_results, results_before[k].key)
           /\ Get(plugins_results, results_before[k].key) = results_before[k].val
    /\ \A j \in 1..Len(attempts) :
           MadeEntry(attempts[j]) =>
               /\ Has(plugins_results, attempts[j].key)
               /\ Get(plugins_results, attempts[j].key) = ErrorOf(attempts[j])

\* The category a bound class is written for: the most derived of the
\* abstract bases it descends from.
CategoryOf(b) ==
    IF "ExitPlugin" \in b.mro THEN "ExitPlugin" ELSE CHOOSE c \in b.mro : TRUE

\* The abstract bases themselves (they carry no key).
IsAbstractBase(b) == b.key = None

\* C23: the registry the constructed runner loaded for its category holds
\* only concrete plugins written for that category (no Exit plugin in the
\* PostBuild registry, and so on for every two categories, and no abstract
\* base), and every request it resolved was resolved to such a plugin.
C23_RegistryOnlyOwnCategory ==
    pc # "new" =>
        /\ \A b \in load_plugins(PluginClassName(phase)) :
               /\ CategoryOf(b) = PluginClassName(phase)
               /\ ~IsAbstractBase(b)
        /\ \A j \in 1..Len(available_plugins) :
               CategoryOf(ClassOf(PluginClassName(phase), available_plugins[j].key))
                   = PluginClassName(phase)

FailedResult(a) == a.result = "BuildResult_failed"

\* What C24 says of a candidate whose run() returned a BuildResult reporting
\* failure, the return to the caller aside: it is the last attempt (the loop
\* is left at once), the failed result is in the result map under the
\* candidate's key, and the workflow has plugin_failed set and the fail
\* reason as that plugin's error.
FailedResultStopsAndIsNoted(a, j) ==
    /\ j = Len(attempts)
    /\ pc # "loop"
    /\ index = a.index
    /\ Has(plugins_results, a.key)
    /\ Get(plugins_results, a.key) = ErrorOf(a)
    /\ workflow.plugin_failed
    /\ Has(workflow.plugins_errors, a.key)
    /\ Get(workflow.plugins_errors, a.key) = Val("fail_reason", a.key, a.index)

\* C24 as stated: a failed build result stops the loop, is recorded and
\* noted as above, and the phase never raises: once over, it has returned
\* the failed build result (the one value of a result map that was empty
\* before the run).
C24_FailedResultReturned ==
    \A j \in 1..Len(attempts) :
        FailedResult(attempts[j]) =>
            /\ FailedResultStopsAndIsNoted(attempts[j], j)
            /\ pc # "raised"
            /\ (pc = "returned" /\ results_before = << >>)
                   => returned.value = ErrorOf(attempts[j])

\* C24 amended: a failed build result stops the loop, is recorded and noted
\* as above.  The run then raises the aggregate error when keep_going let an
\* earlier candidate's failure into the accumulator, and otherwise returns
\* the first value of the build-step result map, which is the failed build
\* result when the map was empty before the run.
C24_FailedResultStopsLoop ==
    \A j \in 1..Len(attempts) :
        FailedResult(attempts[j]) =>
            /\ FailedResultStopsAndIsNoted(attempts[j], j)
            /\ pc = "raised" =>
                   /\ keep_going
                   /\ failed_msgs # << >>
                   /\ raised = ExpectedAggregate(failed_msgs)
            /\ (failed_msgs = << >>) => pc \in {"after_loop", "returned"}
            /\ pc = "returned" =>
                   /\ returned.value = plugins_results[1].val
                   /\ results_before = << >> => returned.value = ErrorOf(attempts[j])

C24_Witness ==
    /\ buildstep_phase
    /\ ~keep_going
    /\ results_before = << >>
    /\ Len(available_plugins) = 2
    /\ Len(attempts) = 1
    /\ FailedResult(attempts[1])
    /\ pc = "returned"
    /\ returned.value.t = "BuildResult_failed"

\* No entry of the workflow's plugins_errors holds the attempt's error.
NotInErrors(a) ==
    \A k \in 1..Len(workflow.plugins_errors) : workflow.plugins_errors[k].val # ErrorOf(a)

\* Every attempt so far ended in success or in an ordinary error of a plugin
\* that is allowed to fail, and the run has not raised.
OnlySuccessesAndAllowedErrors ==
    /\ pc \in {"loop", "after_loop", "returned"}
    /\ \A j \in 1..Len(attempts) : Succeeded(attempts[j]) \/ AllowedOrdinary(attempts[j])

\* C25: in the build phases, with keep_going or without, an ordinary error of
\* a plugin whose effective is_allowed_to_fail is false sets
\* workflow.plugin_failed and puts the error under the plugin's key in
\* workflow.plugins_errors (until a later attempt for that key fails too);
\* an ordinary error of a plugin allowed to fail puts nothing there, and a
\* run with nothing but successes and such errors leaves plugin_failed unset
\* and plugins_errors empty.
C25_FailureNotedIffForbidden ==
    phase # "Input" =>
        /\ \A j \in 1..Len(attempts) :
               ForbiddenOrdinary(attempts[j]) =>
                   /\ workflow.plugin_failed
                   /\ Has(workflow.plugins_errors, attempts[j].key)
                   /\ NotAttemptedAgain(j) =>
                          Get(workflow.plugins_errors, attempts[j].key) = ErrorOf(attempts[j])
        /\ \A j \in 1..Len(attempts) :
               AllowedOrdinary(attempts[j]) => NotInErrors(attempts[j])
        /\ OnlySuccessesAndAllowedErrors =>
               /\ ~workflow.plugin_failed
               /\ workflow.plugins_errors = << >>

C25_Witness ==
    /\ phase = "PreBuild"
    /\ keep_going
    /\ Len(attempts) = 2
    /\ AllowedOrdinary(attempts[1])
    /\ ForbiddenOrdinary(attempts[2])
    /\ workflow.plugin_failed
    /\ Keys(workflow.plugins_errors) = {attempts[2].key}

\* The other side: an allowed failure alone leaves the workflow untouched.
C25_WitnessAllowed ==
    /\ phase = "Exit"
    /\ pc = "returned"
    /\ Len(attempts) = 1
    /\ AllowedOrdinary(attempts[1])
    /\ ~workflow.plugin_failed

\* create_instance_from_plugin raised an ordinary error: the attempt never
\* got to plugin_instance.run().
FailedBeforeRun(a) == a.stage = "init" /\ OrdinaryError(a)

\* No attempt for the plugin key got as far as calling run().
NeverRun(key) == \A k \in 1..Len(attempts) : attempts[k].key = key => attempts[k].stage = "init"

\* C26: an ordinary error raised while the plugin is being instantiated is
\* handled as one raised by run().  When the plugin is allowed to fail or
\* keep_going is on, the error is the plugin's recorded response (until a
\* later attempt for the same key replaces it; under "auto" for the Input
\* plugin chosen for "auto" once the run returned), it is accumulated exactly
\* when the plugin is not allowed to fail, and the loop goes on with the next
\* entry; otherwise the run raises PluginFailedException with the plugin's
\* message at once and nothing is recorded.  Its run() is not invoked: line
\* 267, which precedes the call, leaves no timestamp for the plugin.
C26_ConstructorErrorAsRunError ==
    \A j \in 1..Len(attempts) :
        FailedBeforeRun(attempts[j]) =>
            /\ IF Resolved(attempts[j]).is_allowed_to_fail \/ keep_going
               THEN /\ NotAttemptedAgain(j) =>
                           /\ Has(plugins_results, KeyNow(attempts[j]))
                           /\ Get(plugins_results, KeyNow(attempts[j])) = ErrorOf(attempts[j])
                    /\ InMsgs(MsgOf(attempts[j]), failed_msgs)
                           <=> ~Resolved(attempts[j]).is_allowed_to_fail
                    /\ j < Len(attempts) => attempts[j + 1].index = attempts[j].index + 1
                    /\ j = Len(attempts) => index = attempts[j].index + 1
               ELSE /\ j = Len(attempts)
                    /\ pc = "raised"
                    /\ raised = PluginFailedException(<< MsgOf(attempts[j]) >>)
                    /\ NothingRecordedBy(attempts[j])
                    /\ returned = NoReturn
            /\ (phase # "Input" /\ NeverRun(attempts[j].key))
                   => attempts[j].key \notin workflow.plugins_timestamps

C26_Witness ==
    /\ phase = "PreBuild"
    /\ ~keep_going
    /\ pc = "returned"
    /\ Len(attempts) = 2
    /\ FailedBeforeRun(attempts[1])
    /\ Resolved(attempts[1]).is_allowed_to_fail
    /\ attempts[2].stage = "run"
    /\ attempts[1].key # attempts[2].key

\* The fatal side: a constructor error of a plugin that may not fail.
C26_WitnessFatal ==
    /\ ~keep_going
    /\ pc = "raised"
    /\ Len(available_plugins) = 2
    /\ Len(attempts) = 1
    /\ FailedBeforeRun(attempts[1])
    /\ ~Resolved(attempts[1]).is_allowed_to_fail

====
